---- MODULE Spec2Model ----
(***************************************************************************)
(* Model of the mantra recitation tracker: the offline sync queue          *)
(* (src/src/services/syncQueueService.ts) with the two MantraService calls *)
(* it makes (testConnection, saveRecitation), the submission of a          *)
(* recitation by the user interface (src/src/components/MantraApp.tsx),    *)
(* and the mantra catalog (src/src/services/mantraService.ts).             *)
(*                                                                         *)
(* The JavaScript runtime is single-threaded and cooperative: a handler    *)
(* runs without interruption until it returns or reaches an await on a     *)
(* network call.  Every action below is one such uninterrupted run.  A     *)
(* syncQueue call is a coroutine: it is suspended at the health check and  *)
(* at each saveRecitation, and other handlers (enqueue, timer ticks,       *)
(* further syncQueue calls, clearQueue) may run while it is suspended.  A  *)
(* getAllMantras call is suspended while its adapters fetch.               *)
(*                                                                         *)
(* The specifications share the actions:                                   *)
(*   Spec         every queue operation in any order, overlapping          *)
(*                syncQueue calls included;                                *)
(*   SpecSerial   the same, with syncQueue called only while no other call *)
(*                is in flight;                                            *)
(*   SpecFailing  enqueue, then serial flushes against a reachable backend *)
(*                that rejects every delivery;                             *)
(*   SpecNotify   listeners subscribing and unsubscribing around enqueue,  *)
(*                serial flushes and clearQueue;                           *)
(*   SpecApp      SpecSerial with the user interface's submissions;        *)
(*   SpecLive     Spec with fair scheduling and a backend that is          *)
(*                reachable from some time on;                             *)
(*   SpecCatalog  the catalog operations, in any deployment;               *)
(*   SpecUser     addUserMantra and deleteUserMantra as time passes;       *)
(*   SpecCorrupt  the catalog with cache keys overwritten from outside;    *)
(*   SpecBackend  the catalog served by the backend, rows of any category; *)
(*   SpecRefresh  the catalog with forced refreshes of the spreadsheet;    *)
(*   SpecSheets   the catalog with the spreadsheet read sheet by sheet.     *)
(* The history variables (attempts, delivered, dropped, cleared, lastOk,   *)
(* heard) record what the calls did; no action reads them.                 *)
(***************************************************************************)
EXTENDS Integers, Sequences, FiniteSets

\* ---------------------------------------------------------------- bounds
\* Number of recitations ever enqueued (queue ids are 1..MaxItems).
MaxItems == 2
\* Number of recitations ever enqueued when syncQueue calls may overlap.
RaceItems == 1
\* Last value of the clock (Date.now()).
MaxNow == 1
\* Number of listener registrations held at a time.
MaxSubs == 2
\* Number of user-submitted mantras.
MaxUser == 2
\* Number of rows in a response of the backend, where the rows are drawn
\* from all categories.
MaxRows == 2
\* Number of sheets in the spreadsheet.
MaxSheets == 2

\* ------------------------------------------------------------- constants
\* private maxRetries = 5
maxRetries == 5
\* private cacheExpiry = 24 * 60 * 60 * 1000
cacheExpiry == 24 * 60 * 60 * 1000
\* null, the value of a timestamp never set
Null == -1

VARIABLES
    now,          \* Date.now()
    queue,        \* localStorage['syncQueue'], parsed: a sequence of items
                  \* [id, retries]; an item's recitation and timestamp are
                  \* carried along unchanged and decide nothing here
    statusStore,  \* localStorage['syncStatus']: Absent or a SyncStatus
    syncInterval, \* TRUE iff this.syncInterval holds a timer handle
    timers,       \* the number of live setInterval timers
    listeners,    \* this.listeners: the registered listener functions
    unsubs,       \* the listener functions whose unsubscribe closure exists
    heard,        \* per listener function: how often the last step invoked
                  \* it, and the status it was last invoked with
    fl,           \* the in-flight syncQueue calls (locals and position)
    nextId,       \* the next fresh queue id
    ret,          \* the value returned by the last queueRecitation (0: none)
    broadcast,    \* the status last passed to notifyListeners
    attempts,     \* history: per id, saveRecitation calls made (saturating)
    delivered,    \* history: per id, saveRecitation successes (saturating)
    dropped,      \* history: ids dropped at the retry ceiling
    cleared,      \* history: ids removed by clearQueue
    lastOk,       \* history: the result of the last saveRecitation
    saved,        \* MantraApp: localStorage['mantraRecitations']
    GOOGLE_SHEET_ENABLED, \* the three spreadsheet settings are all present
    airtableConfigured,   \* AIRTABLE_BASE_ID and AIRTABLE_API_KEY are present
    cache,        \* localStorage['coreMantras'], ['googleSheetsMantras']:
                  \* Absent or a stored [data, timestamp]
    userMantras,  \* localStorage['userMantras'], parsed
    call,         \* the getAllMantras call in flight, if any
    result,       \* how the last getAllMantras call settled
    added,        \* the entry the last addUserMantra returned
    deleted,      \* the id given to the last deleteUserMantra and its result
    preAdd,       \* history: the user store as the last addUserMantra found
                  \* it, while no deleteUserMantra has followed
    malformed,    \* per cache key: how the string stored under it is
                  \* malformed, "none" when it is absent or as the service
                  \* wrote it
    refresh       \* the refreshGoogleSheets call: whether it is waiting for
                  \* its fetch, and how the last one returned

\* What the user store operations returned.
userRets == <<added, deleted, preAdd>>

\* The variables of MantraService.
catalogVars == <<GOOGLE_SHEET_ENABLED, airtableConfigured, cache, userMantras,
                 call, result, userRets, malformed, refresh>>

\* The variables of the components other than the sync queue.
elsewhere == <<saved, catalogVars>>

vars == <<now, queue, statusStore, syncInterval, timers, listeners, unsubs,
          heard, fl, nextId, ret, broadcast, attempts, delivered, dropped,
          cleared, lastOk, elsewhere>>

Ids == 1..MaxItems
\* The syncQueue calls in flight: every interference between calls is
\* between two of them.
Flushes == {1, 2}
\* The listener functions that callers may register.
Listeners == {"a", "b"}
\* A key that holds no value; a stored value v is held as <<v>>.
Absent == << >>
Stored(v) == <<v>>

\* ----------------------------------------------------------- pure helpers
Range(s) == {s[k] : k \in DOMAIN s}
QueueIds(q) == {q[k].id : k \in DOMAIN q}
Min(a, b) == IF a < b THEN a ELSE b

\* The default status of getStatus (no stored status).
DefaultStatus ==
    [pending |-> 0, syncing |-> FALSE,
     lastSyncAttempt |-> Null, lastSuccessfulSync |-> Null]

\* getStatus(): the stored status, or the default one when none is stored.
getStatus(stored) == IF stored = Absent THEN DefaultStatus ELSE stored[1]

\* { ...a, ...b }: object spread, the fields of b override those of a.
Spread(a, b) == [k \in DOMAIN a |-> IF k \in DOMAIN b THEN b[k] ELSE a[k]]

\* updateStatus() called without updates.
NoUpdates == << >>

\* updateStatus spreading the updates first: { ...updates, ...currentStatus,
\* pending }, so that the stored fields override them.
NewStatusUpdatesOverridden(q, stored, updates) ==
    Spread(getStatus(stored), [pending |-> Len(q)])

\* updateStatus without its `pending: queue.length`.
NewStatusNoPending(q, stored, updates) == Spread(getStatus(stored), updates)

\* updateStatus(updates): the status written and broadcast, given the queue
\* stored at the time of the call.
NewStatus(q, stored, updates) ==
    Spread(Spread(getStatus(stored), [pending |-> Len(q)]), updates)

\* An array method that adds at the front.
PushFront(list, item) == <<item>> \o list
\* list.push(item): the item goes after those already in the array.
Push(list, item) == Append(list, item)

\* notes that are undefined.
NoNotes == "undefined"

\* The recitation passed to the queueRecitation call that made the item of
\* this id, which the item carries unchanged: the first has neither
\* duration nor notes, and consecutive ones differ in every field.
RecitationOf(id) ==
    [mantraName |-> CASE id = 1 -> "Mool Mantar"
                      [] id = 2 -> "Waheguru"
                      [] OTHER -> "Japji Sahib",
     count |-> 100 + id,
     duration |-> IF id = 1 THEN Null ELSE 10 * id,
     notes |-> IF id = 1 THEN NoNotes ELSE "evening"]

\* The argument syncQueue gives saveRecitation for an item:
\* { mantraId: 'default', count, duration: duration || 0, notes }.
SaveArgs(recitation) ==
    [mantraId |-> "default",
     count |-> recitation.count,
     duration |-> IF recitation.duration \in {Null, 0} THEN 0
                  ELSE recitation.duration,
     notes |-> recitation.notes]

\* saveRecitation(recitationData): the body it posts through
\* api.createRecitation.
PostBody(recitationData) ==
    [mantra_id |-> recitationData.mantraId,
     user_id |-> "default-user",
     count |-> recitationData.count,
     duration_minutes |-> recitationData.duration,
     notes |-> recitationData.notes]

\* A queue item that starts with one retry spent.
NewItemRetried(id) == [id |-> id, retries |-> 1]
\* The queue item built by queueRecitation.
NewItem(id) == [id |-> id, retries |-> 0]

\* A failure that leaves the counter as it was.
RetryNoIncrement(item) == item
\* item.retries += 1
Retry(item) == [item EXCEPT !.retries = @ + 1]

\* The ceiling test with <= for <.
KeepAtCeiling(item) == item.retries <= maxRetries
\* if (item.retries < this.maxRetries) failedQueue.push(item)
Keep(item) == item.retries < maxRetries

\* The status update of the drain made before the reachability test.
UnreachableMarksSyncing(t) == [syncing |-> TRUE, lastSyncAttempt |-> t]
\* this.updateStatus({ lastSyncAttempt: Date.now() }), backend unreachable
UnreachableUpdates(t) == [lastSyncAttempt |-> t]

\* The registrations of listener function l in this.listeners.
Regs(l) == Cardinality({k \in DOMAIN listeners : listeners[k] = l})

\* A step that invokes no listener.
Silent == [l \in Listeners |-> [n |-> 0, st |-> heard[l].st]]

NotifyFirst(st) ==
    [l \in Listeners |->
        IF listeners # << >> /\ listeners[1] = l
        THEN [n |-> 1, st |-> Stored(st)]
        ELSE [n |-> 0, st |-> heard[l].st]]

\* notifyListeners(status): listeners.forEach(listener => listener(status))
Notify(st) ==
    [l \in Listeners |->
        [n |-> Regs(l),
         st |-> IF Regs(l) > 0 THEN Stored(st) ELSE heard[l].st]]

\* for (const item of queue): the loop goes on to the next item.
MoreItemsUnlessFailed(f, ok) == ok /\ fl[f].i < Len(fl[f].snap)
MoreItems(f, ok) == fl[f].i < Len(fl[f].snap)

IdleFlush ==
    [pc |-> "idle", snap |-> <<>>, i |-> 0,
     failedQueue |-> <<>>, successfulIds |-> <<>>]

Idle(f) == fl[f].pc = "idle"
\* Slots are interchangeable: a new call takes the lowest free one.
FreeSlot(f) == Idle(f) /\ \A g \in Flushes : g < f => ~Idle(g)

Bump(h, id) == [h EXCEPT ![id] = Min(@ + 1, maxRetries + 1)]

\* ------------------------------------------------------ the mantra catalog
\* The stores that cache a provider's entries.
coreMantrasCacheKey == "coreMantras"
googleSheetsCacheKey == "googleSheetsMantras"
CacheKeys == {coreMantrasCacheKey, googleSheetsCacheKey}

\* The adapters that fetch over the network, and all sources of entries.
Providers == {"backend", "core", "sheets"}
Sources == Providers \cup {"user"}

\* A submittedAt: undefined, a Date object, or the ISO string that
\* JSON.stringify writes for a Date and JSON.parse reads back as a string.
NoDate == <<"undefined", 0>>
Date(t) == <<"date", t>>
Iso(t) == <<"iso", t>>

\* No category given.
NoCategory == "none"

\* A Mantra: its id, its source, its traditionalCount (Null: undefined), its
\* submittedAt and its category.
Entry(id, source, count) ==
    [id |-> id, source |-> source, traditionalCount |-> count,
     submittedAt |-> NoDate, category |-> NoCategory]

\* JSON.parse(JSON.stringify(mantras)): what reading the store gives back for
\* what was written to it.
Stringified(mantras) ==
    [k \in DOMAIN mantras |->
        [mantras[k] EXCEPT !.submittedAt =
            IF @[1] = "date" THEN Iso(@[2]) ELSE @]]

\* The traditionalCount of the mantra a user submits.
UserCounts == {Null, 27}

\* The id addUserMantra gives at time t: `user-${Date.now()}`.
UserId(t) == <<"user", t>>

NewMantraUnstamped(count, t) == Entry(UserId(t), "core", count)

\* { ...mantra, id: `user-${Date.now()}`, source: 'user',
\*   submittedAt: new Date() }
NewMantra(count, t) ==
    [Entry(UserId(t), "user", count) EXCEPT !.submittedAt = Date(t)]

DeleteFirstOnly(store, id) ==
    IF \E k \in DOMAIN store : store[k].id = id
    THEN LET k == CHOOSE j \in DOMAIN store :
                      /\ store[j].id = id
                      /\ \A i \in 1..(j - 1) : store[i].id # id
         IN SubSeq(store, 1, k - 1) \o SubSeq(store, k + 1, Len(store))
    ELSE store

\* userMantras.filter(m => m.id !== id)
Filtered(store, id) == SelectSeq(store, LAMBDA m : m.id # id)

\* { id: 'custom', name: 'Custom', source: 'core' }
custom == Entry(<<"custom", 0>>, "core", Null)

\* What sikthCounts[category] gives for a category that names a property
\* every object inherits, such as "constructor": that property, the function
\* Object, which is truthy and not a number.
InheritedProperty == -2

\* The categories a backend row may carry: none, the empty string, listed
\* ones, one that is not listed, and one that names an inherited property.
Categories ==
    {NoCategory, "", "Daily Banis", "Core Mantras", "Paurees", "Simran",
     "Devotion", "Unlisted", "constructor"}

\* getDefaultCount(category): 108 without a category, else
\* sikthCounts[category] || 108, a property lookup on an object literal.
getDefaultCount(category) ==
    CASE category \in {NoCategory, ""} -> 108
      [] category = "Daily Banis" -> 1
      [] category = "Core Mantras" -> 125000
      [] category = "Paurees" -> 11
      [] category = "Simran" -> 125000
      [] category = "constructor" -> InheritedProperty
      [] OTHER -> 108

\* getBackendMantras: response.data.map(...)
FromBackend(rows) ==
    [k \in DOMAIN rows |->
        [Entry(rows[k].id, "core", getDefaultCount(rows[k].category))
            EXCEPT !.category = rows[k].category]]

\* What a provider may answer: a rejection, or its entries.
Failed == [ok |-> FALSE, data |-> << >>]
Ok(data) == [ok |-> TRUE, data |-> data]

BackendData ==
    { <<[id |-> <<"m", 1>>, category |-> NoCategory]>>,
      <<[id |-> <<"m", 1>>, category |-> "Simran"],
        [id |-> <<"m", 2>>, category |-> "Paurees"]>> }
AirtableData ==
    { << >>, <<Entry(<<"rec", 1>>, "core", 108)>> }
SheetsData ==
    { << >>,
      <<Entry(<<"gsheet", 1>>, "core", Null),
        Entry(<<"gsheet", 2>>, "core", 11)>> }

Replies(p) ==
    {Failed} \cup
    { Ok(d) : d \in CASE p = "backend" -> { FromBackend(r) : r \in BackendData }
                      [] p = "core" -> AirtableData
                      [] p = "sheets" -> SheetsData }

\* The ways a string found under a cache key can differ from what the
\* service writes there: text that JSON.parse rejects; JSON without a data
\* field, such as {}; JSON whose data is neither an array nor falsy and
\* which has no timestamp, such as {"data": 5}.
Malformations == {"unparsable", "noData", "notArray"}

\* getCached* on a malformed string returns its data: JSON.parse succeeds,
\* Date.now() - undefined > cacheExpiry is false, and `if (cached)` finds
\* the data truthy.  On the other malformed strings it returns null or
\* undefined, JSON.parse having thrown into the catch or data being
\* undefined, and leaves the key.
ReturnsData(m, key) == m[key] = "notArray"

\* What an adapter contributes when the data it returns cannot be spread
\* into the array getAllMantras builds: the spread throws.
NotIterable == [ok |-> FALSE, data |-> << >>]

KeyOfShared(p) == coreMantrasCacheKey

\* The cache key of a caching adapter.
KeyOf(p) == IF p = "core" THEN coreMantrasCacheKey ELSE googleSheetsCacheKey

\* Date.now() - timestamp > this.cacheExpiry
ExpiredAtExpiry(entry, t) == t - entry.timestamp >= cacheExpiry
Expired(entry, t) == t - entry.timestamp > cacheExpiry

CacheHitNever(c, key, t) == FALSE

\* getCachedCoreMantras / getCachedGoogleSheetsMantras return the data.
CacheHit(c, key, t) == c[key] # Absent /\ ~Expired(c[key][1], t)

AfterReadKeeps(c, key, t) == c

\* The cache after such a read: an expired entry is removed.
AfterRead(c, key, t) ==
    IF c[key] # Absent /\ Expired(c[key][1], t)
    THEN [c EXCEPT ![key] = Absent]
    ELSE c

\* The try/catch of an adapter: a rejection becomes an empty array.
AdapterResultUncaught(reply) == reply
AdapterResult(reply) == IF reply.ok THEN reply ELSE Ok(<< >>)

CombineUserFirst(got) ==
    got["user"].data \o got["backend"].data \o got["core"].data
        \o got["sheets"].data \o <<custom>>

\* [...backendMantras, ...coreMantras, ...googleSheetsMantras,
\*  ...userMantras, custom]
Combine(got) ==
    got["backend"].data \o got["core"].data \o got["sheets"].data
        \o got["user"].data \o <<custom>>

\* await Promise.all([...]) and the return: rejected if an adapter rejected.
\* Kept with the outcome: when the call was made, which fetches failed and
\* what each adapter contributed.
Settle(got, failed, at) ==
    [rejected |-> ~(\A p \in Sources : got[p].ok),
     value |-> IF \A p \in Sources : got[p].ok
               THEN Combine(got) ELSE << >>,
     at |-> at,
     failed |-> failed,
     parts |-> [p \in Sources |-> got[p].data]]

IdleCall ==
    [pc |-> "idle", pending |-> {}, failed |-> {}, at |-> 0,
     got |-> [p \in Sources |-> Ok(<< >>)]]

\* ------------------------------------------------------------------ Init
\* The services as constructed on a first run: nothing in localStorage, no
\* timer, no listener.  Queue ids ("queued-<millis>-<random>") are taken to
\* be distinct and are numbered in the order of their creation.
FirstRun ==
    /\ now = 0
    /\ queue = <<>>
    /\ statusStore = Absent
    /\ syncInterval = FALSE
    /\ timers = 0
    /\ listeners = << >>
    /\ unsubs = {}
    /\ heard = [l \in Listeners |-> [n |-> 0, st |-> Absent]]
    /\ saved = << >>
    /\ fl = [f \in Flushes |-> IdleFlush]
    /\ nextId = 1
    /\ ret = 0
    /\ broadcast = Absent
    /\ attempts = [id \in Ids |-> 0]
    /\ delivered = [id \in Ids |-> 0]
    /\ dropped = {}
    /\ cleared = {}
    /\ lastOk = FALSE
    /\ cache = [k \in CacheKeys |-> Absent]
    /\ userMantras = << >>
    /\ call = IdleCall
    /\ result = Absent
    /\ added = Absent
    /\ deleted = Absent
    /\ preAdd = Absent
    /\ malformed = [k \in CacheKeys |-> "none"]
    /\ refresh = [pc |-> "idle", returned |-> Absent]

\* A deployment with neither the spreadsheet nor Airtable configured.
Init ==
    /\ FirstRun
    /\ GOOGLE_SHEET_ENABLED = FALSE
    /\ airtableConfigured = FALSE

\* Any deployment.
CatalogInit ==
    /\ FirstRun
    /\ GOOGLE_SHEET_ENABLED \in BOOLEAN
    /\ airtableConfigured \in BOOLEAN

\* --------------------------------------------------------------- actions
\* The clock advances.
Tick ==
    /\ now < MaxNow
    /\ now' = now + 1
    /\ UNCHANGED <<queue, statusStore, syncInterval, fl, nextId, ret,
                   broadcast, attempts, delivered, dropped, cleared, lastOk>>
    /\ heard' = Silent
    /\ UNCHANGED <<timers, listeners, unsubs, elsewhere>>

\* queueRecitation(recitation)
QueueRecitation ==
    /\ LET q == Push(queue, NewItem(nextId))
           st == NewStatus(q, statusStore, NoUpdates)
       IN /\ queue' = q
          /\ statusStore' = Stored(st)
          /\ broadcast' = Stored(st)
          /\ heard' = Notify(st)
    /\ ret' = nextId
    /\ nextId' = nextId + 1
    /\ UNCHANGED <<now, syncInterval, fl, attempts, delivered, dropped,
                   cleared, lastOk>>
    /\ UNCHANGED <<timers, listeners, unsubs, elsewhere>>

SyncQueueCallNoEmptyCheck(f) ==
    /\ FreeSlot(f)
    /\ fl' = [fl EXCEPT ![f] = [IdleFlush EXCEPT !.pc = "health",
                                                 !.snap = queue]]

\* syncQueue(), from the call to the first await: nothing happens on an
\* empty queue, otherwise the call is suspended at testConnection with its
\* snapshot of the queue.
SyncQueueCall(f) ==
    /\ FreeSlot(f)
    /\ fl' = IF queue = <<>> THEN fl
             ELSE [fl EXCEPT ![f] = [IdleFlush EXCEPT !.pc = "health",
                                                      !.snap = queue]]

\* A user-triggered flush.
ManualSync(f) ==
    /\ SyncQueueCall(f)
    /\ UNCHANGED <<now, queue, statusStore, syncInterval, nextId, ret,
                   broadcast, attempts, delivered, dropped, cleared, lastOk>>
    /\ heard' = Silent
    /\ UNCHANGED <<timers, listeners, unsubs, elsewhere>>

\* The setInterval callback.
TimerFire(f) ==
    /\ timers > 0
    /\ SyncQueueCall(f)
    /\ UNCHANGED <<now, queue, statusStore, syncInterval, nextId, ret,
                   broadcast, attempts, delivered, dropped, cleared, lastOk>>
    /\ heard' = Silent
    /\ UNCHANGED <<timers, listeners, unsubs, elsewhere>>

StartAutoSyncNoGuard(f) ==
    /\ syncInterval' = TRUE
    /\ timers' = timers + 1
    /\ SyncQueueCall(f)
    /\ UNCHANGED <<now, queue, statusStore, nextId, ret, broadcast,
                   attempts, delivered, dropped, cleared, lastOk>>
    /\ heard' = Silent
    /\ UNCHANGED <<listeners, unsubs, elsewhere>>

\* startAutoSync(): no-op when running, else install the timer and flush.
StartAutoSync(f) ==
    /\ IF syncInterval
       THEN UNCHANGED <<syncInterval, timers, fl>>
       ELSE /\ syncInterval' = TRUE
            /\ timers' = timers + 1
            /\ SyncQueueCall(f)
    /\ UNCHANGED <<now, queue, statusStore, nextId, ret, broadcast,
                   attempts, delivered, dropped, cleared, lastOk>>
    /\ heard' = Silent
    /\ UNCHANGED <<listeners, unsubs, elsewhere>>

StopAutoSyncNoClear ==
    /\ syncInterval' = FALSE
    /\ UNCHANGED timers
    /\ UNCHANGED <<now, queue, statusStore, fl, nextId, ret, broadcast,
                   attempts, delivered, dropped, cleared, lastOk>>
    /\ heard' = Silent
    /\ UNCHANGED <<listeners, unsubs, elsewhere>>

\* stopAutoSync(): clearInterval on the handle held, if any.
StopAutoSync ==
    /\ IF syncInterval
       THEN /\ timers' = timers - 1
            /\ syncInterval' = FALSE
       ELSE UNCHANGED <<syncInterval, timers>>
    /\ UNCHANGED <<now, queue, statusStore, fl, nextId, ret, broadcast,
                   attempts, delivered, dropped, cleared, lastOk>>
    /\ heard' = Silent
    /\ UNCHANGED <<listeners, unsubs, elsewhere>>

\* testConnection() resolves with ok; syncQueue resumes.
HealthResult(f, ok) ==
    /\ fl[f].pc = "health"
    /\ IF ~ok
       THEN LET st == NewStatus(queue, statusStore, UnreachableUpdates(now))
            IN /\ statusStore' = Stored(st)
               /\ broadcast' = Stored(st)
               /\ heard' = Notify(st)
               /\ fl' = [fl EXCEPT ![f] = IdleFlush]
               /\ UNCHANGED attempts
       ELSE LET st == NewStatus(queue, statusStore,
                                [syncing |-> TRUE, lastSyncAttempt |-> now])
            IN /\ statusStore' = Stored(st)
               /\ broadcast' = Stored(st)
               /\ heard' = Notify(st)
               /\ fl' = [fl EXCEPT ![f].pc = "send", ![f].i = 1]
               /\ attempts' = Bump(attempts, fl[f].snap[1].id)
    /\ UNCHANGED <<now, queue, syncInterval, nextId, ret, delivered,
                   dropped, cleared, lastOk>>
    /\ UNCHANGED <<timers, listeners, unsubs, elsewhere>>

\* saveRecitation() for item i resolves with ok; syncQueue resumes, and
\* either calls saveRecitation for the next item or finishes.
SaveResult(f, ok) ==
    /\ fl[f].pc = "send"
    /\ LET item == fl[f].snap[fl[f].i]
           failed == Retry(item)
           succ2 == IF ok THEN Push(fl[f].successfulIds, item.id)
                    ELSE fl[f].successfulIds
           failed2 == IF ~ok /\ Keep(failed)
                      THEN Push(fl[f].failedQueue, failed)
                      ELSE fl[f].failedQueue
       IN /\ lastOk' = ok
          /\ delivered' = IF ok THEN [delivered EXCEPT ![item.id] = Min(@ + 1, 2)]
                          ELSE delivered
          /\ dropped' = IF ~ok /\ ~Keep(failed) THEN dropped \cup {item.id}
                        ELSE dropped
          /\ IF MoreItems(f, ok)
             THEN /\ fl' = [fl EXCEPT ![f].i = @ + 1,
                                      ![f].successfulIds = succ2,
                                      ![f].failedQueue = failed2]
                  /\ attempts' = Bump(attempts, fl[f].snap[fl[f].i + 1].id)
                  /\ heard' = Silent
                  /\ UNCHANGED <<queue, statusStore, broadcast>>
             ELSE LET allSynced == Len(failed2) = 0
                      st == NewStatus(failed2, statusStore,
                              [syncing |-> FALSE,
                               lastSuccessfulSync |->
                                   IF allSynced THEN now
                                   ELSE getStatus(statusStore).lastSuccessfulSync])
                  IN /\ queue' = failed2
                     /\ statusStore' = Stored(st)
                     /\ broadcast' = Stored(st)
                     /\ heard' = Notify(st)
                     /\ fl' = [fl EXCEPT ![f] = IdleFlush]
                     /\ UNCHANGED attempts
    /\ UNCHANGED <<now, syncInterval, nextId, ret, cleared>>
    /\ UNCHANGED <<timers, listeners, unsubs, elsewhere>>

\* subscribe(listener): register it and call it with the current status.
Subscribe(l) ==
    /\ Len(listeners) < MaxSubs
    /\ listeners' = Append(listeners, l)
    /\ unsubs' = unsubs \cup {l}
    /\ heard' = [Silent EXCEPT ![l] = [n |-> 1,
                                       st |-> Stored(getStatus(statusStore))]]
    /\ UNCHANGED <<now, queue, statusStore, syncInterval, timers, fl, nextId,
                   ret, broadcast, attempts, delivered, dropped, cleared,
                   lastOk, elsewhere>>

\* An unsubscribe function that takes out one registration of the listener.
UnsubscribeOne(l) ==
    /\ l \in unsubs
    /\ listeners' =
          IF Regs(l) = 0 THEN listeners
          ELSE LET k == CHOOSE j \in DOMAIN listeners :
                            /\ listeners[j] = l
                            /\ \A i \in 1..(j - 1) : listeners[i] # l
               IN SubSeq(listeners, 1, k - 1)
                      \o SubSeq(listeners, k + 1, Len(listeners))
    /\ heard' = Silent
    /\ UNCHANGED <<now, queue, statusStore, syncInterval, timers, unsubs, fl,
                   nextId, ret, broadcast, attempts, delivered, dropped,
                   cleared, lastOk, elsewhere>>

\* The function returned by subscribe(listener), called at any later time.
Unsubscribe(l) ==
    /\ l \in unsubs
    /\ listeners' = SelectSeq(listeners, LAMBDA x : x # l)
    /\ heard' = Silent
    /\ UNCHANGED <<now, queue, statusStore, syncInterval, timers, unsubs, fl,
                   nextId, ret, broadcast, attempts, delivered, dropped,
                   cleared, lastOk, elsewhere>>

\* clearQueue()
ClearQueue ==
    /\ queue' = <<>>
    /\ LET st == NewStatus(<<>>, statusStore, [pending |-> 0])
       IN /\ statusStore' = Stored(st)
          /\ broadcast' = Stored(st)
          /\ heard' = Notify(st)
    /\ cleared' = cleared \cup QueueIds(queue)
    /\ UNCHANGED <<now, syncInterval, fl, nextId, ret, attempts, delivered,
                   dropped, lastOk>>
    /\ UNCHANGED <<timers, listeners, unsubs, elsewhere>>

\* Every operation of the service, in any order; syncQueue calls may overlap.
Next ==
    \/ Tick
    \/ (nextId <= RaceItems /\ QueueRecitation)
    \/ \E f \in Flushes : ManualSync(f)
    \/ \E f \in Flushes : TimerFire(f)
    \/ \E f \in Flushes : StartAutoSync(f)
    \/ StopAutoSync
    \/ \E f \in Flushes, ok \in BOOLEAN : HealthResult(f, ok)
    \/ \E f \in Flushes, ok \in BOOLEAN : SaveResult(f, ok)
    \/ ClearQueue

Spec == Init /\ [][Next]_vars

\* The same operations when the callers serialise the flushes: syncQueue is
\* called only while no other call is in flight.
NoFlush == \A f \in Flushes : Idle(f)

NextSerial ==
    \/ Tick
    \/ (nextId <= MaxItems /\ QueueRecitation)
    \/ \E f \in Flushes : (NoFlush /\ ManualSync(f))
    \/ \E f \in Flushes : (NoFlush /\ TimerFire(f))
    \/ \E f \in Flushes : ((NoFlush \/ syncInterval) /\ StartAutoSync(f))
    \/ StopAutoSync
    \/ \E f \in Flushes, ok \in BOOLEAN : HealthResult(f, ok)
    \/ \E f \in Flushes, ok \in BOOLEAN : SaveResult(f, ok)
    \/ ClearQueue

SpecSerial == Init /\ [][NextSerial]_vars

\* Enqueue first, then flush one call at a time against a reachable backend
\* that rejects every delivery.
NeverFlushed == getStatus(statusStore).lastSyncAttempt = Null

NextFailing ==
    \/ Tick
    \/ (nextId <= MaxItems /\ NoFlush /\ NeverFlushed /\ QueueRecitation)
    \/ \E f \in Flushes : (NoFlush /\ ManualSync(f))
    \/ \E f \in Flushes : HealthResult(f, TRUE)
    \/ \E f \in Flushes : SaveResult(f, FALSE)

SpecFailing == Init /\ [][NextFailing]_vars

\* Listeners come and go around enqueues, serial flushes and clearQueue.
NextNotify ==
    \/ \E l \in Listeners : Subscribe(l)
    \/ \E l \in Listeners : Unsubscribe(l)
    \/ nextId <= RaceItems /\ QueueRecitation
    \/ \E f \in Flushes : NoFlush /\ ManualSync(f)
    \/ \E f \in Flushes, ok \in BOOLEAN : HealthResult(f, ok)
    \/ \E f \in Flushes, ok \in BOOLEAN : SaveResult(f, ok)
    \/ ClearQueue

SpecNotify == Init /\ [][NextNotify]_vars

\* MantraApp.addRecitation(recitation): give it the id Date.now(), append it
\* to the recitations and store them under 'mantraRecitations'.
AddRecitation ==
    /\ saved' = Append(saved, now)
    /\ heard' = Silent
    /\ UNCHANGED <<now, queue, statusStore, syncInterval, timers, listeners,
                   unsubs, fl, nextId, ret, broadcast, attempts, delivered,
                   dropped, cleared, lastOk, catalogVars>>

\* The user interface on top of the queue service, flushes serialised.
NextApp ==
    \/ (Len(saved) < MaxItems /\ AddRecitation)
    \/ NextSerial

SpecApp == Init /\ [][NextApp]_vars

AwaitedWithBackend(en, coreHit, sheetsHit) ==
    {"backend"}
    \cup (IF ~en /\ ~coreHit /\ airtableConfigured THEN {"core"} ELSE {})
    \cup (IF en /\ ~sheetsHit THEN {"sheets"} ELSE {})

\* The adapters whose fetch a getAllMantras call waits for: with the
\* spreadsheet enabled (en) the backend and Airtable adapters are replaced
\* by Promise.resolve([]); without it getGoogleSheetsMantras returns [] at
\* once; a cached array or a missing Airtable configuration ends an adapter
\* before its fetch.
Awaited(en, coreHit, sheetsHit) ==
    (IF en THEN {} ELSE {"backend"})
    \cup (IF ~en /\ ~coreHit /\ airtableConfigured THEN {"core"} ELSE {})
    \cup (IF en /\ ~sheetsHit THEN {"sheets"} ELSE {})

\* The variables of the sync queue that no catalog operation touches.
queueVars == <<queue, statusStore, syncInterval, timers, listeners, unsubs,
               fl, nextId, ret, broadcast, attempts, delivered, dropped,
               cleared, lastOk>>

\* getAllMantras(), from the call to the await of Promise.all: the adapters
\* run up to their first fetch.  The backend and Airtable adapters are
\* skipped when the spreadsheet is enabled, the spreadsheet adapter when it
\* is not; a caching adapter returns a cached array without fetching; the
\* Airtable adapter returns [] when not configured.  With nothing to wait
\* for the call returns.
GetAllMantras ==
    /\ call.pc = "idle"
    /\ LET en == GOOGLE_SHEET_ENABLED
           coreHit == /\ ~en
                      /\ \/ CacheHit(cache, coreMantrasCacheKey, now)
                         \/ ReturnsData(malformed, coreMantrasCacheKey)
           sheetsHit == /\ en
                        /\ \/ CacheHit(cache, googleSheetsCacheKey, now)
                           \/ ReturnsData(malformed, googleSheetsCacheKey)
           read == IF en
                   THEN AfterRead(cache, googleSheetsCacheKey, now)
                   ELSE AfterRead(cache, coreMantrasCacheKey, now)
           pend == Awaited(en, coreHit, sheetsHit)
           got == [p \in Sources |->
                     CASE p \in {"core", "sheets"} /\ (en <=> p = "sheets")
                              /\ ReturnsData(malformed, KeyOf(p)) ->
                              NotIterable
                       [] p = "core" /\ coreHit ->
                              Ok(cache[coreMantrasCacheKey][1].data)
                       [] p = "sheets" /\ sheetsHit ->
                              Ok(cache[googleSheetsCacheKey][1].data)
                       [] p = "user" -> Ok(userMantras)
                       [] OTHER -> Ok(<< >>)]
       IN /\ cache' = read
          /\ IF pend = {}
             THEN /\ result' = Stored(Settle(got, {}, now))
                  /\ call' = IdleCall
             ELSE /\ call' = [pc |-> "waiting", pending |-> pend,
                              failed |-> {}, at |-> now, got |-> got]
                  /\ UNCHANGED result
    /\ heard' = Silent
    /\ UNCHANGED <<now, queueVars, saved, GOOGLE_SHEET_ENABLED,
                   airtableConfigured, userMantras, userRets, malformed,
                   refresh>>

\* The fetch of adapter p settles with reply: entries fetched by a caching
\* adapter are written to its cache key with the current time, a rejection
\* is caught; once no adapter is awaited the call returns.
Answer(p, reply) ==
    /\ call.pc = "waiting"
    /\ p \in call.pending
    /\ LET got == [call.got EXCEPT ![p] = AdapterResult(reply)]
           failed == IF reply.ok THEN call.failed ELSE call.failed \cup {p}
           pend == call.pending \ {p}
       IN /\ cache' = IF reply.ok /\ p # "backend"
                      THEN [cache EXCEPT ![KeyOf(p)] =
                              Stored([data |-> reply.data, timestamp |-> now])]
                      ELSE cache
          /\ malformed' = IF reply.ok /\ p # "backend"
                          THEN [malformed EXCEPT ![KeyOf(p)] = "none"]
                          ELSE malformed
          /\ IF pend = {}
             THEN /\ result' = Stored(Settle(got, failed, call.at))
                  /\ call' = IdleCall
             ELSE /\ call' = [call EXCEPT !.pending = pend, !.got = got,
                                         !.failed = failed]
                  /\ UNCHANGED result
    /\ heard' = Silent
    /\ UNCHANGED <<now, queueVars, saved, GOOGLE_SHEET_ENABLED,
                   airtableConfigured, userMantras, userRets, refresh>>

\* addUserMantra(mantra): stamp the mantra, append it to the stored user
\* mantras, store them and return the new one.
AddUserMantra(count) ==
    /\ userMantras' = Stringified(Append(userMantras, NewMantra(count, now)))
    /\ added' = Stored(NewMantra(count, now))
    /\ preAdd' = Stored(userMantras)
    /\ heard' = Silent
    /\ UNCHANGED <<now, queueVars, saved, GOOGLE_SHEET_ENABLED,
                   airtableConfigured, cache, call, result, deleted,
                   malformed, refresh>>

\* deleteUserMantra(id): store the user mantras without those of that id if
\* there is one, and return whether there was.
DeleteUserMantra(id) ==
    /\ userMantras' = IF Len(Filtered(userMantras, id)) # Len(userMantras)
                      THEN Stringified(Filtered(userMantras, id))
                      ELSE userMantras
    /\ deleted' = Stored([id |-> id,
                          ok |-> Len(Filtered(userMantras, id))
                                    # Len(userMantras)])
    /\ preAdd' = Absent
    /\ heard' = Silent
    /\ UNCHANGED <<now, queueVars, saved, GOOGLE_SHEET_ENABLED,
                   airtableConfigured, cache, call, result, added, malformed,
                   refresh>>

\* The instants at which the catalog is used: around the first run and
\* around one expiry period later.
Instants == {0, 1, cacheExpiry - 1, cacheExpiry, cacheExpiry + 1}

\* Time passes until instant t.
Elapse(t) ==
    /\ t > now
    /\ now' = t
    /\ heard' = Silent
    /\ UNCHANGED <<queueVars, elsewhere>>

\* The catalog operations of any deployment.
NextCatalog ==
    \/ GetAllMantras
    \/ \E p \in Providers : \E reply \in Replies(p) : Answer(p, reply)
    \/ (Len(userMantras) < MaxUser /\ AddUserMantra(Null))
    \/ \E t \in Instants : Elapse(t)

SpecCatalog == CatalogInit /\ [][NextCatalog]_vars

\* Something other than the service overwrites a cache key with a malformed
\* string.
Corrupt(key, how) ==
    /\ cache' = [cache EXCEPT ![key] = Absent]
    /\ malformed' = [malformed EXCEPT ![key] = how]
    /\ heard' = Silent
    /\ UNCHANGED <<now, queueVars, saved, GOOGLE_SHEET_ENABLED,
                   airtableConfigured, userMantras, call, result, userRets,
                   refresh>>

\* The catalog with a cache that can be overwritten from outside.
NextCorrupt ==
    \/ GetAllMantras
    \/ \E p \in Providers : \E reply \in Replies(p) : Answer(p, reply)
    \/ \E key \in CacheKeys : \E how \in Malformations : Corrupt(key, how)
    \/ \E t \in Instants : Elapse(t)

SpecCorrupt == CatalogInit /\ [][NextCorrupt]_vars

\* The responses of the backend: up to MaxRows rows, each of any category.
BackendRows ==
    UNION { { [k \in 1..n |-> [id |-> <<"m", k>>, category |-> of[k]]]
                : of \in [1..n -> Categories] }
              : n \in 1..MaxRows }

\* The catalog served by the backend alone, whatever categories it sends.
NextBackend ==
    \/ GetAllMantras
    \/ \E rows \in BackendRows : Answer("backend", Ok(FromBackend(rows)))
    \/ Answer("backend", Failed)

SpecBackend == Init /\ [][NextBackend]_vars

\* refreshGoogleSheets(), from the call to the await inside
\* getGoogleSheetsMantras: the spreadsheet key is removed; without the
\* spreadsheet settings the adapter returns [] at once and the call returns
\* true, else the adapter, finding no cached entry, fetches.
RefreshGoogleSheets ==
    /\ refresh.pc = "idle"
    /\ cache' = [cache EXCEPT ![googleSheetsCacheKey] = Absent]
    /\ malformed' = [malformed EXCEPT ![googleSheetsCacheKey] = "none"]
    /\ refresh' = IF GOOGLE_SHEET_ENABLED
                  THEN [pc |-> "waiting", returned |-> Absent]
                  ELSE [pc |-> "idle",
                        returned |-> Stored([value |-> TRUE,
                                             fetch |-> "none"])]
    /\ heard' = Silent
    /\ UNCHANGED <<now, queueVars, saved, GOOGLE_SHEET_ENABLED,
                   airtableConfigured, userMantras, call, result, userRets>>

\* The fetch of a refreshGoogleSheets call settles with reply: fetched
\* entries are written to the spreadsheet key, a rejection is caught inside
\* getGoogleSheetsMantras, and refreshGoogleSheets returns true unless the
\* adapter rejected.
RefreshAnswer(reply) ==
    /\ refresh.pc = "waiting"
    /\ cache' = IF reply.ok
                THEN [cache EXCEPT ![googleSheetsCacheKey] =
                        Stored([data |-> reply.data, timestamp |-> now])]
                ELSE cache
    /\ malformed' = IF reply.ok
                    THEN [malformed EXCEPT ![googleSheetsCacheKey] = "none"]
                    ELSE malformed
    /\ refresh' = [pc |-> "idle",
                   returned |->
                       Stored([value |-> AdapterResult(reply).ok,
                               fetch |-> IF reply.ok THEN "ok" ELSE "failed"])]
    /\ heard' = Silent
    /\ UNCHANGED <<now, queueVars, saved, GOOGLE_SHEET_ENABLED,
                   airtableConfigured, userMantras, call, result, userRets>>

\* The catalog with forced refreshes of the spreadsheet.
NextRefresh ==
    \/ GetAllMantras
    \/ \E p \in Providers : \E reply \in Replies(p) : Answer(p, reply)
    \/ RefreshGoogleSheets
    \/ \E reply \in Replies("sheets") : RefreshAnswer(reply)
    \/ \E t \in Instants : Elapse(t)

SpecRefresh == CatalogInit /\ [][NextRefresh]_vars

\* The sheets of the spreadsheet, and what reading the values of sheet k
\* may give: a rejection, no row, or one row.
Sheets == 1..MaxSheets
SheetReads(k) ==
    {Failed, Ok(<< >>), Ok(<<Entry(<<"gsheet", k>>, "core", Null)>>)}

\* getMantrasFromSheet(sheetName): the entries of the rows read; a
\* rejection is caught and gives [].
getMantrasFromSheet(read) == IF read.ok THEN read.data ELSE << >>

\* mantraArrays.flat()
RECURSIVE Flat(_)
Flat(arrays) ==
    IF arrays = << >> THEN << >> ELSE Head(arrays) \o Flat(Tail(arrays))

\* googleSheetsService.getMantras(): it rejects when the sign-in or
\* getSheetNames rejects (namesOk false), else it resolves with the entries
\* of all sheets.
getMantras(namesOk, reads) ==
    IF namesOk
    THEN Ok(Flat([k \in Sheets |-> getMantrasFromSheet(reads[k])]))
    ELSE Failed

\* The spreadsheet fetch of the call settles, given how the sign-in and the
\* reading of each sheet went.
AnswerSheets(namesOk, reads) == Answer("sheets", getMantras(namesOk, reads))

\* The catalog with the spreadsheet read sheet by sheet.
NextSheets ==
    \/ GetAllMantras
    \/ \E p \in {"backend", "core"} : \E reply \in Replies(p) :
          Answer(p, reply)
    \/ \E namesOk \in BOOLEAN :
          \E reads \in [Sheets -> UNION {SheetReads(k) : k \in Sheets}] :
              /\ \A k \in Sheets : reads[k] \in SheetReads(k)
              /\ AnswerSheets(namesOk, reads)
    \/ \E t \in Instants : Elapse(t)

SpecSheets == CatalogInit /\ [][NextSheets]_vars

\* The operations on the user store, as time passes.
NextUser ==
    \/ \E count \in UserCounts :
          Len(userMantras) < MaxUser /\ AddUserMantra(count)
    \/ \E t \in Instants : DeleteUserMantra(UserId(t))
    \/ \E t \in Instants : Elapse(t)

SpecUser == Init /\ [][NextUser]_vars

\* testConnection resolves; the backend may be unreachable only before the
\* clock has reached MaxNow.
LiveHealth(f) ==
    \E ok \in BOOLEAN : (ok \/ now < MaxNow) /\ HealthResult(f, ok)

\* saveRecitation resolves, either way.
LiveSave(f) == \E ok \in BOOLEAN : SaveResult(f, ok)

\* All operations, flushes overlapping, with a backend that is reachable from
\* time MaxNow on.
NextLive ==
    \/ Tick
    \/ (nextId <= RaceItems /\ QueueRecitation)
    \/ \E f \in Flushes : ManualSync(f)
    \/ \E f \in Flushes : TimerFire(f)
    \/ \E f \in Flushes : StartAutoSync(f)
    \/ StopAutoSync
    \/ \E f \in Flushes : LiveHealth(f)
    \/ \E f \in Flushes : LiveSave(f)
    \/ ClearQueue

\* Time passes, a live timer keeps firing, and every request gets its answer.
SpecLive ==
    /\ Init
    /\ [][NextLive]_vars
    /\ WF_vars(Tick)
    /\ WF_vars(\E f \in Flushes : TimerFire(f))
    /\ \A f \in Flushes : WF_vars(LiveHealth(f)) /\ WF_vars(LiveSave(f))

\* ---------------------------------------------------------------- claims
Status == getStatus(statusStore)
Enqueued == 1..(nextId - 1)

\* The step in which syncQueue is called on a non-empty queue, as call f.
Calling(f) == fl[f].pc = "idle" /\ fl'[f].pc = "health"
\* The step in which call f returns after its drain.
Finishing(f) == fl[f].pc = "send" /\ fl'[f].pc = "idle"
\* The step in which call f returns because the backend is unreachable.
Skipping(f) == fl[f].pc = "health" /\ fl'[f].pc = "idle"
\* In a finishing step: the ids of the drained items that were delivered.
Succeeded(f) ==
    Range(fl[f].successfulIds)
        \cup (IF lastOk' THEN {fl[f].snap[Len(fl[f].snap)].id} ELSE {})
\* The items of a drained queue that failed and stay under the ceiling, each
\* with one more retry.
Retained(snap, okIds) ==
    LET kept == SelectSeq(snap, LAMBDA it :
                    it.id \notin okIds /\ it.retries + 1 < maxRetries)
    IN [k \in 1..Len(kept) |->
           [id |-> kept[k].id, retries |-> kept[k].retries + 1]]

\* C1: every recitation ever enqueued is still in the persisted queue unless
\* it was delivered, dropped at the retry ceiling or removed by clearQueue.
C1_RemovedOnlyForCause ==
    \A id \in Enqueued :
        \/ id \in QueueIds(queue)
        \/ delivered[id] > 0
        \/ id \in dropped
        \/ id \in cleared

\* C2: at most one syncQueue call is draining at any time.
C2_OneDrainAtATime ==
    Cardinality({f \in Flushes : fl[f].pc = "send"}) <= 1

\* C3: no recitation is delivered successfully more than once.
C3_DeliveredAtMostOnce == \A id \in Ids : delivered[id] <= 1

\* C4: the queue persisted at the end of a drain holds exactly the drained
\* items whose delivery failed and whose counter, incremented by one, is under
\* the ceiling, in their order; delivered items and items at the ceiling are
\* absent from it.
C4_DrainOutcome ==
    [][\A f \in Flushes :
          Finishing(f) => queue' = Retained(fl[f].snap, Succeeded(f))]_vars

C4_Witness ==
    /\ NoFlush
    /\ delivered[1] = 1
    /\ attempts[1] = maxRetries
    /\ 2 \in dropped
    /\ attempts[2] = maxRetries
    /\ queue = << >>

\* C5: a flush of a non-empty queue that finds the backend unreachable stamps
\* lastSyncAttempt with the current time and returns; neither its call nor
\* its return changes the queue, syncing or lastSuccessfulSync, and no
\* delivery is attempted.
C5_UnreachableSkips ==
    [][\A f \in Flushes :
          /\ Calling(f) => queue' = queue /\ statusStore' = statusStore
          /\ Skipping(f) =>
                /\ queue' = queue
                /\ Status'.lastSyncAttempt = now
                /\ Status'.syncing = Status.syncing
                /\ Status'.lastSuccessfulSync = Status.lastSuccessfulSync
                /\ attempts' = attempts
                /\ delivered' = delivered
                /\ fl'[f] = IdleFlush]_vars

C5_Witness ==
    /\ NoFlush
    /\ Len(queue) = 2
    /\ Status.lastSyncAttempt = now
    /\ now > 0
    /\ ~Status.syncing
    /\ Status.lastSuccessfulSync = Null
    /\ \A id \in Ids : attempts[id] = 0

\* C6: queueRecitation appends one item with a fresh id and retries = 0 at the
\* tail, leaves the items before it as they were, returns the new id and
\* broadcasts the stored status, whose pending count is the new length.
C6_Enqueue ==
    [][nextId' # nextId =>
          /\ nextId \notin QueueIds(queue)
          /\ queue' = Append(queue, [id |-> nextId, retries |-> 0])
          /\ ret' = nextId
          /\ Status'.pending = Len(queue')
          /\ broadcast' = Stored(Status')
          /\ Status'.syncing = Status.syncing
          /\ Status'.lastSyncAttempt = Status.lastSyncAttempt
          /\ Status'.lastSuccessfulSync = Status.lastSuccessfulSync]_vars

C6_Witness ==
    /\ ret = 2
    /\ queue = <<[id |-> 1, retries |-> 2], [id |-> 2, retries |-> 0]>>
    /\ broadcast = Stored(Status)
    /\ Status.pending = 2

\* C7: a drain changes lastSuccessfulSync, to the current time, only when
\* every drained item was delivered; a drain in which an item failed leaves
\* it as it was.
C7_SuccessOnlyIfAllDelivered ==
    [][\A f \in Flushes :
          Finishing(f) =>
              IF Succeeded(f) = QueueIds(fl[f].snap)
              THEN Status'.lastSuccessfulSync = now
              ELSE Status'.lastSuccessfulSync = Status.lastSuccessfulSync]_vars

\* C8: saveRecitation is called at most maxRetries times for any recitation.
C8_AttemptsBounded == \A id \in Ids : attempts[id] <= maxRetries

\* C9: against a backend that rejects every delivery, after k flushes of N
\* enqueued recitations every one of them has been attempted k times, and the
\* queue holds all N of them with retries = k while k is under the ceiling
\* and is empty when k reaches it.
C9_FailingFlushes ==
    NoFlush =>
        \E k \in 0..maxRetries :
            /\ \A id \in Enqueued : attempts[id] = k
            /\ IF k < maxRetries
               THEN queue = [j \in Enqueued |-> [id |-> j, retries |-> k]]
               ELSE queue = << >>

C9_Witness ==
    /\ NoFlush
    /\ nextId > 2
    /\ queue = << >>
    /\ \A id \in Enqueued : attempts[id] = maxRetries /\ id \in dropped

\* C10: when every delivery of a drain succeeds, the drain ends with an empty
\* persisted queue, pending = 0, syncing = false and lastSuccessfulSync set
\* to the current time.
C10_SuccessfulFlush ==
    [][\A f \in Flushes :
          (Finishing(f) /\ Succeeded(f) = QueueIds(fl[f].snap)) =>
              /\ queue' = << >>
              /\ Status'.pending = 0
              /\ Status'.syncing = FALSE
              /\ Status'.lastSuccessfulSync = now
              /\ Status'.lastSuccessfulSync # Null]_vars

C10_Witness ==
    /\ NoFlush
    /\ nextId > 2
    /\ queue = << >>
    /\ \A id \in Enqueued : delivered[id] = 1 /\ attempts[id] = 1
    /\ Status.pending = 0
    /\ ~Status.syncing
    /\ Status.lastSuccessfulSync # Null

\* The drain of slot f moves from the health check to its first item.
Entering(f) == fl[f].pc = "health" /\ fl'[f].pc = "send"

\* The drain of slot f moves from one item to the next.
Advancing(f) == fl[f].pc = "send" /\ fl'[f].pc = "send" /\ fl'[f] # fl[f]

\* C11: within one drain every item that was in the queue when the drain
\* started gets exactly one delivery attempt, in order, whether the items
\* before it succeeded or failed: the drain takes the whole queue as its list,
\* starts at its first item, goes from item i to item i + 1 after either
\* result, ends only after the last item, and no other step attempts anything.
C11_OneAttemptEach ==
    [][ /\ \A f \in Flushes :
            /\ Calling(f) => fl'[f].snap = queue /\ attempts' = attempts
            /\ Entering(f) =>
                  /\ fl'[f].i = 1
                  /\ fl'[f].snap = fl[f].snap
                  /\ attempts' = Bump(attempts, fl[f].snap[1].id)
            /\ Advancing(f) =>
                  /\ fl'[f].i = fl[f].i + 1
                  /\ fl'[f].i <= Len(fl[f].snap)
                  /\ QueueIds(fl'[f].snap) = QueueIds(fl[f].snap)
                  /\ attempts' = Bump(attempts, fl[f].snap[fl[f].i + 1].id)
                  /\ attempts'[fl[f].snap[fl[f].i + 1].id]
                        = attempts[fl[f].snap[fl[f].i + 1].id] + 1
            /\ Finishing(f) =>
                  /\ fl[f].i = Len(fl[f].snap)
                  /\ attempts' = attempts
        /\ (\A f \in Flushes : ~Entering(f) /\ ~Advancing(f))
              => attempts' = attempts
        /\ \A f \in Flushes : \A j, k \in DOMAIN fl[f].snap :
              fl[f].snap[j].id = fl[f].snap[k].id => j = k
      ]_vars

\* A drain is at its second item after its first item failed and was kept.
C11_Witness ==
    \E f \in Flushes :
        /\ fl[f].pc = "send"
        /\ fl[f].i = 2
        /\ Len(fl[f].failedQueue) = 1
        /\ attempts[fl[f].snap[2].id] = 1

\* C12: a flush on an empty queue is a no-op. No call is ever suspended at
\* the health check or at a delivery with an empty item list; a manual or
\* timer-triggered flush called on an empty queue changes nothing at all
\* (queue, status with its lastSyncAttempt, listeners' last notification); and
\* the immediate flush of startAutoSync on an empty queue changes nothing but
\* the timer.
C12_EmptyFlushNoOp ==
    /\ [](\A f \in Flushes : fl[f].pc # "idle" => fl[f].snap # << >>)
    /\ [][ \A f \in Flushes :
             /\ (queue = << >> /\ (ManualSync(f) \/ TimerFire(f)))
                   => UNCHANGED vars
             /\ (queue = << >> /\ StartAutoSync(f))
                   => UNCHANGED <<now, queue, statusStore, fl, nextId, ret,
                                  broadcast, heard, attempts, delivered,
                                  dropped, cleared, lastOk>>
         ]_vars

\* startAutoSync was called on a queue that never held an item: its immediate
\* flush left no status behind and started no drain.
C12_Witness ==
    /\ syncInterval
    /\ nextId = 1
    /\ queue = << >>
    /\ statusStore = Absent
    /\ NoFlush

\* The step installs the auto-sync timer.
Starting == ~syncInterval /\ syncInterval'

\* The step cancels the auto-sync timer.
Stopping == syncInterval /\ ~syncInterval'

\* C13: startAutoSync is idempotent. There is never more than one live timer
\* (exactly one while auto-sync runs); a call while it runs changes nothing,
\* so it starts no flush; a call while it does not run installs the one timer
\* and makes exactly one immediate flush call: on a non-empty queue exactly
\* one drain begins, on the queue as it is, and on an empty queue none.
C13_StartIdempotent ==
    /\ [](timers = IF syncInterval THEN 1 ELSE 0)
    /\ [][ /\ \A f \in Flushes :
                (syncInterval /\ StartAutoSync(f)) => UNCHANGED vars
           /\ Starting =>
                /\ timers' = timers + 1
                /\ UNCHANGED <<queue, statusStore, broadcast, attempts>>
                /\ IF queue = << >>
                   THEN fl' = fl
                   ELSE \E f \in Flushes :
                           /\ Calling(f)
                           /\ fl'[f].snap = queue
                           /\ \A g \in Flushes \ {f} : fl'[g] = fl[g]
         ]_vars

\* Auto-sync runs on its one timer and its immediate flush is suspended at
\* the health check.
C13_Witness ==
    /\ syncInterval
    /\ timers = 1
    /\ fl[1].pc = "health"
    /\ Idle(2)
    /\ getStatus(statusStore).lastSyncAttempt = Null

\* C14: stopAutoSync cancels the timer: while auto-sync is not running no
\* timer is live, so every flush that starts then is not timer-triggered;
\* the stopping step leaves every call in flight, the queue and the status as
\* they are; a call when auto-sync is not running changes nothing; and a
\* flush in flight can always take its next step, whether or not auto-sync
\* runs.
C14_StopCancelsTimer ==
    /\ [](~syncInterval => timers = 0)
    /\ [](\A f \in Flushes :
             /\ fl[f].pc = "health" => ENABLED HealthResult(f, TRUE)
             /\ fl[f].pc = "send" => ENABLED SaveResult(f, TRUE))
    /\ [][ /\ Stopping =>
                /\ timers' = 0
                /\ UNCHANGED <<fl, queue, statusStore, broadcast, attempts>>
           /\ (~syncInterval /\ StopAutoSync) => UNCHANGED vars
           /\ \A f \in Flushes :
                (TimerFire(f) /\ Calling(f)) => syncInterval
         ]_vars

\* Auto-sync is not running and holds no timer while a drain is in flight.
C14_Witness ==
    /\ ~syncInterval
    /\ timers = 0
    /\ \E f \in Flushes : fl[f].pc = "send"
    /\ \A id \in Ids : attempts[id] <= 1

\* The step is a call subscribe(l).
Subscribing(l) ==
    /\ Len(listeners') = Len(listeners) + 1
    /\ listeners'[Len(listeners')] = l

\* The step calls updateStatus.
StatusUpdate ==
    \/ QueueRecitation
    \/ ClearQueue
    \/ \E f \in Flushes : Skipping(f) \/ Entering(f) \/ Finishing(f)

\* C15: subscribe(l) invokes l at once, one time, with the current status;
\* every later status update (enqueue, the updates of a flush, clearQueue)
\* invokes l one time per registration it holds, with the status just
\* written; and while l holds no registration (it was never subscribed, or
\* its unsubscribe function has been called) no step invokes it.
C15_Subscription ==
    [][ \A l \in Listeners :
          /\ Subscribing(l) =>
                /\ heard'[l] = [n |-> 1, st |-> Stored(Status)]
                /\ statusStore' = statusStore
                /\ Regs(l)' = Regs(l) + 1
          /\ StatusUpdate =>
                /\ statusStore' # Absent
                /\ heard'[l].n = Regs(l)
                /\ Regs(l) > 0 => heard'[l].st = statusStore'
          /\ Unsubscribe(l) => Regs(l)' = 0
          /\ (Regs(l) = 0 /\ ~Subscribing(l)) =>
                heard'[l] = [n |-> 0, st |-> heard[l].st]
      ]_vars

\* Listener "a" holds one registration and has just been told of a status
\* change made after it subscribed, while "b", which has unsubscribed, was
\* not invoked and still holds the status it got at its subscription.
C15_Witness ==
    /\ Regs("a") = 1
    /\ heard["a"].n = 1
    /\ heard["a"].st = statusStore
    /\ statusStore # Absent
    /\ Regs("b") = 0
    /\ "b" \in unsubs
    /\ heard["b"].n = 0
    /\ heard["b"].st = Stored(DefaultStatus)

\* The queue is Idle: nothing queued, no call in flight, pending = 0 and
\* syncing = false.
QueueIdle ==
    /\ queue = << >>
    /\ NoFlush
    /\ Status.pending = 0
    /\ ~Status.syncing

\* C16: the queue has no terminal failure state. If auto-sync is running
\* from some point on, its timer fires fairly and the backend is reachable
\* from some point on, then, enqueues having ceased, every item leaves the
\* queue for good and the queue stays Idle with pending = 0 and
\* syncing = false.
C16_EventuallyIdle == (<>[]syncInterval) => <>[]QueueIdle

\* Auto-sync runs and the queue is back to Idle after an item left it at the
\* retry ceiling.
C16_Witness ==
    /\ syncInterval
    /\ QueueIdle
    /\ dropped # {}
    /\ now = MaxNow

\* The step is a submission of a recitation by the user interface.
Submitting == Len(saved') > Len(saved)

\* C17: every recitation the user interface submits is appended to the saved
\* recitations in the store and, in the same step, enqueued in the sync queue
\* under a new id.
C17_SubmitPersistsAndEnqueues ==
    [][ Submitting =>
          /\ Len(saved') = Len(saved) + 1
          /\ nextId' = nextId + 1
          /\ Len(queue') = Len(queue) + 1
          /\ queue'[Len(queue')].id = nextId
      ]_vars

\* The outcome of the last getAllMantras call.
Returned == result[1]

\* C18: the aggregation fails open.  Every getAllMantras call that has
\* settled did not reject; each adapter whose fetch was rejected in that
\* call, and each adapter that is not configured, contributed no entry; and
\* the value returned is the contributions of the four sources followed by
\* the custom sentinel.
C18_FailOpen ==
    result # Absent =>
        /\ ~Returned.rejected
        /\ \A p \in Returned.failed : Returned.parts[p] = << >>
        /\ ~GOOGLE_SHEET_ENABLED => Returned.parts["sheets"] = << >>
        /\ (~GOOGLE_SHEET_ENABLED /\ ~airtableConfigured)
              => Returned.parts["core"] = << >>
        /\ Len(Returned.value) =
              Len(Returned.parts["backend"]) + Len(Returned.parts["core"])
              + Len(Returned.parts["sheets"]) + Len(Returned.parts["user"]) + 1
        /\ \A p \in Sources : \A k \in DOMAIN Returned.parts[p] :
              \E j \in DOMAIN Returned.value :
                  Returned.value[j] = Returned.parts[p][k]
        /\ Returned.value[Len(Returned.value)] = custom

\* A call settled in which the Airtable fetch was rejected while the backend
\* and the user store contributed entries.
C18_Witness ==
    /\ result # Absent
    /\ Returned.failed = {"core"}
    /\ Returned.parts["backend"] # << >>
    /\ Returned.parts["user"] # << >>
    /\ Len(Returned.value) >= 3

\* The place of an entry's provider in the precedence order, read off the
\* id: the remote catalogs (backend "m", Airtable "rec"), the spreadsheet,
\* the user store, the sentinel.
Rank(e) ==
    CASE e.id[1] = "m" -> 1
      [] e.id[1] = "rec" -> 1
      [] e.id[1] = "gsheet" -> 2
      [] e.id[1] = "user" -> 3
      [] e.id[1] = "custom" -> 4

\* The entries of seq whose id has the given prefix, in their order.
Of(seq, prefix) == SelectSeq(seq, LAMBDA e : e.id[1] = prefix)

\* C19: the sequence getAllMantras returns holds the remote entries, then
\* the spreadsheet entries, then the user entries, each provider's entries
\* in the order the provider gave them, and ends with the entry of id custom
\* and source core, which occurs nowhere else; one remote entry and one user
\* entry alone give three entries: the remote one (count 108, source core),
\* the user one (source user), the sentinel.
C19_Precedence ==
    result # Absent =>
        LET v == Returned.value
        IN /\ \A i, j \in DOMAIN v : i < j => Rank(v[i]) <= Rank(v[j])
           /\ Of(v, "m") = Returned.parts["backend"]
           /\ Of(v, "rec") = Returned.parts["core"]
           /\ Of(v, "gsheet") = Returned.parts["sheets"]
           /\ Of(v, "user") = Returned.parts["user"]
           /\ Of(v, "custom") = <<custom>>
           /\ v[Len(v)].id = <<"custom", 0>> /\ v[Len(v)].source = "core"
           /\ ( /\ Len(Returned.parts["backend"]) = 1
                /\ Len(Returned.parts["user"]) = 1
                /\ Returned.parts["core"] = << >>
                /\ Returned.parts["sheets"] = << >> )
              => /\ Len(v) = 3
                 /\ v[1] = Entry(<<"m", 1>>, "core", 108)
                 /\ v[2].source = "user" /\ v[2].id[1] = "user"
                 /\ v[3] = custom

\* A call returned exactly one backend entry, one user entry and the
\* sentinel.
C19_Witness ==
    /\ result # Absent
    /\ Len(Returned.parts["backend"]) = 1
    /\ Len(Returned.parts["user"]) = 1
    /\ Len(Returned.value) = 3

\* The cache key a getAllMantras call reads, and the adapter it belongs to.
ReadKey ==
    IF GOOGLE_SHEET_ENABLED THEN googleSheetsCacheKey ELSE coreMantrasCacheKey
ReadProvider == IF GOOGLE_SHEET_ENABLED THEN "sheets" ELSE "core"

\* The age, at this read, of the entry stored under the key read.
Age == now - cache[ReadKey][1].timestamp

\* The read returned the stored data: the adapter contributes them without
\* fetching and the key stays as it is.
Served ==
    /\ cache'[ReadKey] = cache[ReadKey]
    /\ ReadProvider \notin call'.pending
    /\ IF call'.pc = "waiting"
       THEN call'.got[ReadProvider].data = cache[ReadKey][1].data
       ELSE result'[1].parts[ReadProvider] = cache[ReadKey][1].data

\* The read treated the entry as absent: the key is removed and the adapter
\* goes on to fetch.
Evicted ==
    /\ cache'[ReadKey] = Absent
    /\ ReadProvider \in call'.pending

\* C20 as claimed: a read returns the entry only while its age is strictly
\* less than 24 h, and at every read at which the age is 24 h or more the
\* entry is treated as absent and its key removed.
C20_ValidBelowExpiry ==
    [][ (GetAllMantras /\ cache[ReadKey] # Absent) =>
            IF Age < cacheExpiry THEN Served ELSE Evicted ]_vars

\* C20 as amended: a read returns the entry while its age is at most 24 h
\* (24 h exactly included), and at every read at which the age is more than
\* 24 h the entry is treated as absent and its key removed.
C20_ValidUpToExpiry ==
    [][ (GetAllMantras /\ cache[ReadKey] # Absent) =>
            IF Age <= cacheExpiry THEN Served ELSE Evicted ]_vars

\* A call made exactly 24 h after the spreadsheet entries were cached
\* returned the cached entries and left the key in place.
C20_Witness ==
    /\ GOOGLE_SHEET_ENABLED
    /\ result # Absent
    /\ Returned.at = cacheExpiry
    /\ cache[googleSheetsCacheKey] # Absent
    /\ cache[googleSheetsCacheKey][1].timestamp = 0
    /\ Returned.parts["sheets"] = cache[googleSheetsCacheKey][1].data
    /\ Returned.parts["sheets"] # << >>

\* The getAllMantras call in flight ends its wait for adapter p in this step.
Settling(p) ==
    /\ call.pc = "waiting"
    /\ p \in call.pending
    /\ p \notin call'.pending

\* After the step: the fetches that failed in the call, and what adapter p
\* contributes to it.
FailedAfter == IF call'.pc = "waiting" THEN call'.failed ELSE result'[1].failed
ContributionAfter(p) ==
    IF call'.pc = "waiting" THEN call'.got[p].data ELSE result'[1].parts[p]

Fetched(p) == Stored([data |-> ContributionAfter(p), timestamp |-> now])

\* Adapter p's fetch succeeds in this step.
Succeeding(p) == Settling(p) /\ p \notin FailedAfter

\* C22 as claimed: every successful fetch of the backend (Remote-API)
\* adapter and of the spreadsheet adapter is persisted with the current
\* time under a cache key, and a step that only reads or writes the user
\* store writes no cache key.
C22_EveryFetchCached ==
    [][ /\ Succeeding("backend") =>
              \E k \in CacheKeys : cache'[k] = Fetched("backend")
        /\ Succeeding("sheets") =>
              cache'[googleSheetsCacheKey] = Fetched("sheets")
        /\ \A k \in CacheKeys :
              (\A p \in Providers : ~Settling(p)) =>
                  cache'[k] \in {cache[k], Absent}
      ]_vars

\* C22 as amended: the cache wraps the Airtable and the spreadsheet
\* adapters.  A successful fetch of either is persisted with the current
\* time under its own key, the other key staying as it is; a successful
\* fetch of the backend adapter writes no cache key; and a step in which no
\* fetch settles, reads and writes of the user store among them, writes no
\* cache key.
C22_CachingAdapters ==
    [][ /\ Succeeding("core") =>
              /\ cache'[coreMantrasCacheKey] = Fetched("core")
              /\ cache'[googleSheetsCacheKey] = cache[googleSheetsCacheKey]
        /\ Succeeding("sheets") =>
              /\ cache'[googleSheetsCacheKey] = Fetched("sheets")
              /\ cache'[coreMantrasCacheKey] = cache[coreMantrasCacheKey]
        /\ Settling("backend") => cache' = cache
        /\ \A k \in CacheKeys :
              (\A p \in Providers : ~Settling(p)) =>
                  cache'[k] \in {cache[k], Absent}
      ]_vars

\* A call returned entries fetched from the backend, from Airtable and from
\* the user store: the Airtable entries are cached under 'coreMantras' and
\* nothing else is cached.
C22_Witness ==
    /\ result # Absent
    /\ Returned.failed = {}
    /\ Returned.parts["backend"] # << >>
    /\ Returned.parts["core"] # << >>
    /\ Returned.parts["user"] # << >>
    /\ cache[coreMantrasCacheKey] # Absent
    /\ cache[coreMantrasCacheKey][1].data = Returned.parts["core"]
    /\ cache[googleSheetsCacheKey] = Absent

\* The entry under key k is fresh at this instant.
Fresh(k) == cache[k] # Absent /\ now - cache[k][1].timestamp <= cacheExpiry

\* C23: a getAllMantras call that finds a fresh entry under the key of the
\* adapter it runs does not fetch through that adapter, contributes the
\* cached sequence for it and leaves the key as it is; a caching adapter
\* fetches only when the call found no fresh entry; and an entry is written
\* only when a fetch the call is waiting for settles, the fetches waited for
\* never growing during the call, so a call served from the cache writes no
\* entry under that key.
C23_CacheBeforeFetch ==
    [][ /\ (GetAllMantras /\ Fresh(ReadKey)) =>
              /\ ReadProvider \notin call'.pending
              /\ ContributionAfter(ReadProvider) = cache[ReadKey][1].data
              /\ cache' = cache
        /\ \A p \in {"core", "sheets"} :
              (GetAllMantras /\ p \in call'.pending) =>
                  /\ p = ReadProvider
                  /\ ~Fresh(KeyOf(p))
                  /\ cache'[KeyOf(p)] = Absent
        /\ \A k \in CacheKeys :
              (cache'[k] # cache[k] /\ cache'[k] # Absent) =>
                  \E p \in {"core", "sheets"} : k = KeyOf(p) /\ Settling(p)
        /\ (call.pc = "waiting" /\ call'.pc = "waiting") =>
              call'.pending \subseteq call.pending
      ]_vars

\* The Airtable entries are served from a fresh cache entry while the call
\* waits for the backend only.
C23_Witness ==
    /\ ~GOOGLE_SHEET_ENABLED
    /\ call.pc = "waiting"
    /\ call.pending = {"backend"}
    /\ Fresh(coreMantrasCacheKey)
    /\ call.got["core"].data = cache[coreMantrasCacheKey][1].data
    /\ call.got["core"].data # << >>
    /\ call.at > cache[coreMantrasCacheKey][1].timestamp

\* The ids of the entries the last call returned carry none of the prefixes.
NoneFrom(prefixes) ==
    \A j \in DOMAIN Returned.value : Returned.value[j].id[1] \notin prefixes

\* C24: spreadsheet mode and the remote sources exclude each other.  With
\* the three spreadsheet settings present no call waits for the backend or
\* the Airtable adapter, nothing is cached for Airtable and no returned
\* sequence holds an entry of theirs; with a setting missing no call waits
\* for the spreadsheet adapter, nothing is cached for it and no returned
\* sequence holds a spreadsheet entry.
C24_ExclusiveModes ==
    IF GOOGLE_SHEET_ENABLED
    THEN /\ call.pending \subseteq {"sheets"}
         /\ cache[coreMantrasCacheKey] = Absent
         /\ result # Absent =>
               /\ Returned.parts["backend"] = << >>
               /\ Returned.parts["core"] = << >>
               /\ Returned.failed \subseteq {"sheets"}
               /\ NoneFrom({"m", "rec"})
    ELSE /\ "sheets" \notin call.pending
         /\ cache[googleSheetsCacheKey] = Absent
         /\ result # Absent =>
               /\ Returned.parts["sheets"] = << >>
               /\ "sheets" \notin Returned.failed
               /\ NoneFrom({"gsheet"})

\* In spreadsheet mode a call returned spreadsheet and user entries and the
\* sentinel, and nothing else.
C24_Witness ==
    /\ GOOGLE_SHEET_ENABLED
    /\ result # Absent
    /\ Returned.parts["sheets"] # << >>
    /\ Returned.parts["user"] # << >>
    /\ Len(Returned.value) =
          Len(Returned.parts["sheets"]) + Len(Returned.parts["user"]) + 1

\* --- C27 ---------------------------------------------------------------

\* A step of addUserMantra.
Adding == \E count \in UserCounts : AddUserMantra(count)

\* C27: addUserMantra appends exactly one entry at the end of the user
\* store: the stored ones stay as they were, in their order, and the new last
\* one is what the store keeps of the returned entry, whose id is "user-"
\* and the current time, whose source is user and whose submittedAt is the
\* current time.
C27_AddAppends ==
    [][Adding =>
          /\ added' # Absent
          /\ added'[1].id = UserId(now)
          /\ added'[1].source = "user"
          /\ added'[1].submittedAt = Date(now)
          /\ Len(userMantras') = Len(userMantras) + 1
          /\ SubSeq(userMantras', 1, Len(userMantras)) = userMantras
          /\ <<userMantras'[Len(userMantras')]>> = Stringified(<<added'[1]>>)
      ]_vars

\* A second mantra has been added behind a first one, later than it.
C27_Witness ==
    /\ Len(userMantras) = 2
    /\ added # Absent
    /\ userMantras[2].id = added[1].id
    /\ userMantras[1].id # added[1].id
    /\ userMantras[2].submittedAt = Iso(now)

\* --- C26 ---------------------------------------------------------------

\* The ids deleteUserMantra is called with.
DeletedIds == {UserId(t) : t \in Instants}

\* Some stored user mantra has this id.
Existing(id) == \E k \in DOMAIN userMantras : userMantras[k].id = id

\* C26: deleteUserMantra(id) returns true exactly when a stored user mantra
\* has that id; then the store holds the mantras of every other id, as they
\* were and in their order, and none of that id; when it returns false the
\* store is as it was.
C26_DeleteReports ==
    [][\A id \in DeletedIds :
          DeleteUserMantra(id) =>
              /\ deleted' # Absent
              /\ deleted'[1].id = id
              /\ deleted'[1].ok = Existing(id)
              /\ Existing(id) =>
                    userMantras' = SelectSeq(userMantras, LAMBDA m : m.id # id)
              /\ ~Existing(id) => userMantras' = userMantras
      ]_vars

\* A deleteUserMantra has taken the first of two stored mantras and left the
\* second, which was added later.
C26_Witness ==
    /\ deleted # Absent
    /\ deleted[1].ok
    /\ Len(userMantras) = 1
    /\ userMantras[1].id # deleted[1].id
    /\ userMantras[1].id[2] > deleted[1].id[2]

\* --- C28 ---------------------------------------------------------------

\* No two entries of the sequence have the same id.
UniqueIds(seq) == \A i, j \in DOMAIN seq : i # j => seq[i].id # seq[j].id

\* C28: ids are unique within the catalog.  No two entries of a sequence
\* that getAllMantras returned share an id, and no two stored user mantras do.
C28_UniqueIds ==
    /\ result # Absent => UniqueIds(Returned.value)
    /\ UniqueIds(userMantras)

\* --- C25 ---------------------------------------------------------------

\* deleteUserMantra is called with the id of the mantra that the last
\* addUserMantra returned, and the store has not been written since that add.
Undoing(id) ==
    /\ preAdd # Absent
    /\ added # Absent
    /\ id = added[1].id
    /\ DeleteUserMantra(id)

\* C25: an addUserMantra followed by deleteUserMantra of the id it returned
\* leaves the user store exactly as it was before the add: the same entries
\* in the same order.
C25_AddThenDelete ==
    [][\A id \in DeletedIds : Undoing(id) => userMantras' = preAdd[1]]_vars

\* --- C29 ---------------------------------------------------------------

\* The read of this step treated the key as missing: the adapter of the key
\* goes on to its fetch, which without an Airtable configuration is the
\* return of no entry.
Missed ==
    IF ReadProvider = "core" /\ ~airtableConfigured
    THEN ContributionAfter("core") = << >>
    ELSE ReadProvider \in call'.pending

\* C29: cache corruption is recovered locally.  A getAllMantras call that
\* finds a malformed string under the cache key it reads treats the key as
\* missing and fetches through the adapter, and every getAllMantras call
\* that has settled returned a result.
C29_CorruptionIsMiss ==
    /\ [][(GetAllMantras /\ malformed[ReadKey] # "none") => Missed]_vars
    /\ [](result # Absent => ~Returned.rejected)

\* --- C30 ---------------------------------------------------------------

\* C30: the default count is a total function of the category.  Every entry
\* that the backend adapter contributed to a returned catalog has source core
\* and the count of its category: 1 for Daily Banis, 125000 for Core Mantras,
\* 11 for Paurees, 125000 for Simran, and 108 for every other category and
\* for none.
C30_DefaultCounts ==
    result # Absent =>
        \A k \in DOMAIN Returned.parts["backend"] :
            LET entry == Returned.parts["backend"][k]
            IN /\ entry.source = "core"
               /\ entry.traditionalCount =
                     CASE entry.category = "Daily Banis" -> 1
                       [] entry.category = "Core Mantras" -> 125000
                       [] entry.category = "Paurees" -> 11
                       [] entry.category = "Simran" -> 125000
                       [] OTHER -> 108

\* --- C31 ---------------------------------------------------------------

\* C31: between any two steps, a flush suspended at a network call or not,
\* the pending count of the persisted status is the length of the persisted
\* queue.
C31_PendingIsQueueLength == getStatus(statusStore).pending = Len(queue)

\* clearQueue has emptied the queue under a drain that is suspended at a
\* saveRecitation, and the stored status counts no pending item.
C31_Witness ==
    /\ \E f \in Flushes : fl[f].pc = "send" /\ Len(fl[f].snap) = 1
    /\ queue = << >>
    /\ statusStore # Absent
    /\ statusStore[1].pending = 0
    /\ statusStore[1].syncing

\* --- C32 ---------------------------------------------------------------

\* Some syncQueue call has passed its reachability check and has not yet
\* written its final status.
Draining == \E f \in Flushes : fl[f].pc = "send"

\* C32: the syncing flag of the persisted status is true exactly while a
\* drain is in progress.
C32_SyncingIffDraining == getStatus(statusStore).syncing <=> Draining

\* --- C33 ---------------------------------------------------------------

\* C33: in every state every item of the persisted queue has a retry counter
\* from 0 to 4: no item is ever stored with a counter of 5.
C33_RetriesBelowCeiling ==
    \A k \in DOMAIN queue : queue[k].retries \in 0..(maxRetries - 1)

\* An item whose counter reached 5 was not written back, while the item
\* queued behind it stays in the queue with a counter of 4.
C33_Witness ==
    /\ dropped # {}
    /\ dropped \cap QueueIds(queue) = {}
    /\ \E k \in DOMAIN queue : queue[k].retries = maxRetries - 1

\* --- C34 ---------------------------------------------------------------

\* In the list, the item of id a comes before the item of id b.
Before(list, a, b) ==
    \E j, k \in DOMAIN list : j < k /\ list[j].id = a /\ list[k].id = b

\* C34: the queue is first in, first out.  An enqueue puts the new item
\* behind all the items stored, which stay as they were; a drain takes the
\* stored queue as its list, attempts the first item of the list first and
\* after item i the item i + 1; and of two items that the end of a drain
\* writes back, the one written first came first in the queue the drain
\* took.
C34_Fifo ==
    [][ /\ nextId' # nextId =>
              /\ Len(queue') = Len(queue) + 1
              /\ \A k \in DOMAIN queue : queue'[k] = queue[k]
              /\ queue'[Len(queue')].id = nextId
        /\ \A f \in Flushes :
              /\ Calling(f) => fl'[f].snap = queue
              /\ Entering(f) => fl'[f].i = 1 /\ fl'[f].snap = fl[f].snap
              /\ Advancing(f) =>
                    fl'[f].i = fl[f].i + 1 /\ fl'[f].snap = fl[f].snap
              /\ Finishing(f) =>
                    /\ QueueIds(queue') \subseteq QueueIds(fl[f].snap)
                    /\ \A a, b \in QueueIds(queue') :
                          Before(queue', a, b) => Before(fl[f].snap, a, b)
      ]_vars

\* A drain of two items has ended with both failed and written back, the
\* one enqueued first, which had failed once before, still in front.
C34_Witness ==
    /\ NoFlush
    /\ Len(queue) = 2
    /\ queue[1].id = 1 /\ queue[2].id = 2
    /\ queue[1].retries = 2 /\ queue[2].retries = 1
    /\ ~lastOk

\* --- C35 ---------------------------------------------------------------

\* The item whose delivery call f is waiting for, and the body posted for it.
Attempted(f) == fl[f].snap[fl[f].i]
Posted(f) == PostBody(SaveArgs(RecitationOf(Attempted(f).id)))

\* C35: every delivery attempt posts the payload of the item it is for: the
\* mantra, the count, the duration (0 when the recitation has none) and the
\* notes of the recitation that was enqueued.
C35_OwnPayload ==
    \A f \in Flushes :
        fl[f].pc = "send" =>
            LET recitation == RecitationOf(Attempted(f).id)
            IN /\ Posted(f).count = recitation.count
               /\ Posted(f).duration_minutes =
                     (IF recitation.duration = Null THEN 0
                      ELSE recitation.duration)
               /\ Posted(f).notes = recitation.notes
               /\ Posted(f).mantra_id = recitation.mantraName

\* --- C36 ---------------------------------------------------------------

\* C36: refreshGoogleSheets removes the spreadsheet key before it fetches;
\* it returns true only if the spreadsheet fetch succeeded, the key then
\* holding the fetched entries stamped with the current time, and it returns
\* false when the fetch failed.
C36_RefreshReports ==
    /\ [](refresh.returned # Absent =>
             (refresh.returned[1].value <=> refresh.returned[1].fetch = "ok"))
    /\ [][ /\ RefreshGoogleSheets => cache'[googleSheetsCacheKey] = Absent
           /\ \A reply \in Replies("sheets") :
                 (RefreshAnswer(reply) /\ reply.ok) =>
                     cache'[googleSheetsCacheKey] =
                         Stored([data |-> reply.data, timestamp |-> now])
      ]_vars

\* --- C37 ---------------------------------------------------------------

\* The fetch of caching adapter p is rejected in this step.
Rejecting(p) == Settling(p) /\ p \in FailedAfter /\ p \notin call.failed

\* The spreadsheet fetch brought nothing because it failed: the sign-in or
\* the list of sheets was rejected, or the reading of every sheet was.
NothingRead(namesOk, reads) == ~namesOk \/ \A k \in Sheets : ~reads[k].ok

\* C37: a provider fetch that fails leaves the cache key of the provider
\* as it was, so that no empty result caused by a failure is cached.
C37_FailedFetchNotCached ==
    [][ /\ \A p \in {"core", "sheets"} :
              Rejecting(p) => cache'[KeyOf(p)] = cache[KeyOf(p)]
        /\ \A namesOk \in BOOLEAN :
              \A reads \in [Sheets -> UNION {SheetReads(k) : k \in Sheets}] :
                  ( /\ \A k \in Sheets : reads[k] \in SheetReads(k)
                    /\ NothingRead(namesOk, reads)
                    /\ AnswerSheets(namesOk, reads) )
                      => cache'[googleSheetsCacheKey]
                            = cache[googleSheetsCacheKey]
      ]_vars

\* --- C38 ---------------------------------------------------------------

\* C38: clearQueue empties the persisted queue, stores a status with
\* pending 0 and the syncing flag and both timestamps as they were, and
\* invokes every listener once for each registration it holds; and once
\* clearQueue has emptied the queue, the queue gets an item again only by an
\* enqueue, a flush in flight or not.
C38_ClearStaysCleared ==
    [][ /\ ClearQueue =>
              /\ queue' = << >>
              /\ Status'.pending = 0
              /\ Status'.syncing = Status.syncing
              /\ Status'.lastSyncAttempt = Status.lastSyncAttempt
              /\ Status'.lastSuccessfulSync = Status.lastSuccessfulSync
              /\ \A l \in Listeners :
                    /\ heard'[l].n = Regs(l)
                    /\ Regs(l) > 0 => heard'[l].st = statusStore'
        /\ (cleared # {} /\ queue = << >> /\ queue' # << >>)
              => nextId' # nextId
      ]_vars

\* --- C39 ---------------------------------------------------------------

\* C39 as claimed: a call of the unsubscribe function of listener l takes
\* out at most one registration, so that a second registration of l stays,
\* and leaves the registrations of every other listener as they were.
C39_RemovesOneRegistration ==
    [][ \A l \in Listeners :
          Unsubscribe(l) =>
              /\ Regs(l)' >= Regs(l) - 1
              /\ \A m \in Listeners \ {l} : Regs(m)' = Regs(m)
      ]_vars

\* C39 as amended: a call of the unsubscribe function of listener l takes
\* out every registration of l, a second registration of l included, and
\* leaves the registrations of every other listener in place and in order;
\* a call made while l holds no registration changes nothing; and every
\* later status update invokes each listener once per registration it holds.
C39_RemovesTheListener ==
    [][ \A l \in Listeners :
          /\ Unsubscribe(l) =>
                /\ Regs(l)' = 0
                /\ \A m \in Listeners \ {l} : Regs(m)' = Regs(m)
                /\ listeners' = SelectSeq(listeners, LAMBDA m : m # l)
                /\ Regs(l) = 0 => listeners' = listeners
                /\ statusStore' = statusStore
          /\ StatusUpdate => heard'[l].n = Regs(l)
      ]_vars

\* Listener "b" has unsubscribed, "a" has kept its registration and was
\* told of the clearQueue that followed.
C39_Witness ==
    /\ "b" \in unsubs
    /\ Regs("b") = 0
    /\ listeners = <<"a">>
    /\ cleared # {}
    /\ queue = << >>
    /\ heard["a"].n = 1
    /\ heard["a"].st = statusStore
    /\ heard["b"].st # statusStore

====
